---- MODULE Spec2Model ----
(***************************************************************************)
(* Model of libaris/src/main/rust/src/expression.rs: the expression tree,  *)
(* freevars, gensym, capture-avoiding subst, unify, transform_expr and the *)
(* normalization passes.                                                   *)
(*                                                                         *)
(* Expressions are records with a "tag" field naming the enum variant.     *)
(* Names (Rust String) are sequences of byte codes, so that format!() and  *)
(* the derived lexicographic Ord are modelled by what they do.             *)
(***************************************************************************)
EXTENDS Integers, Sequences, FiniteSets, TLC

(***************************************************************************)
(* Expr constructors (enum Expr, lines 20-29)                              *)
(***************************************************************************)
Contradiction == [tag |-> "Contradiction"]

Tautology == [tag |-> "Tautology"]

Var(n) == [tag |-> "Var", name |-> n]

Apply(f, a) == [tag |-> "Apply", func |-> f, args |-> a]

Unop(sym, o) == [tag |-> "Unop", symbol |-> sym, operand |-> o]

Binop(sym, l, r) == [tag |-> "Binop", symbol |-> sym, left |-> l, right |-> r]

AssocBinop(sym, es) == [tag |-> "AssocBinop", symbol |-> sym, exprs |-> es]

Quantifier(sym, n, b) == [tag |-> "Quantifier", symbol |-> sym, name |-> n, body |-> b]

\* expression_builders::not
not(e) == Unop("Not", e)

\* expression_builders::forall
forall(n, b) == Quantifier("Forall", n, b)

\* PossiblyCommutative for BSymbol
BSymbolIsCommutative(sym) == sym \in {"Plus", "Mult"}

\* PossiblyCommutative for ASymbol
ASymbolIsCommutative(sym) == sym \in {"And", "Or", "Bicon", "Equiv"}

(***************************************************************************)
(* Helpers over sequences                                                  *)
(***************************************************************************)
Range(f) == {f[i] : i \in DOMAIN f}

Reverse(q) == [i \in 1..Len(q) |-> q[Len(q) + 1 - i]]

RECURSIVE UnionAll(_)
UnionAll(S) == IF S = {} THEN {} ELSE LET x == CHOOSE y \in S : TRUE IN x \cup UnionAll(S \ {x})

(***************************************************************************)
(* freevars (lines 107-120)                                                *)
(***************************************************************************)
\* a plausible slip: the bound name is not removed (r.remove(name) forgotten)
RECURSIVE freevars_keepbound(_)
freevars_keepbound(e) ==
    CASE e.tag = "Contradiction" -> {}
      [] e.tag = "Tautology" -> {}
      [] e.tag = "Var" -> {e.name}
      [] e.tag = "Apply" ->
            freevars_keepbound(e.func)
                \cup UnionAll({freevars_keepbound(e.args[i]) : i \in DOMAIN e.args})
      [] e.tag = "Unop" -> freevars_keepbound(e.operand)
      [] e.tag = "Binop" -> freevars_keepbound(e.left) \cup freevars_keepbound(e.right)
      [] e.tag = "AssocBinop" -> UnionAll({freevars_keepbound(e.exprs[i]) : i \in DOMAIN e.exprs})
      [] e.tag = "Quantifier" -> freevars_keepbound(e.body)

RECURSIVE freevars(_)
freevars(e) ==
    CASE e.tag = "Contradiction" -> {}
      [] e.tag = "Tautology" -> {}
      [] e.tag = "Var" -> {e.name}
      [] e.tag = "Apply" -> freevars(e.func) \cup UnionAll({freevars(e.args[i]) : i \in DOMAIN e.args})
      [] e.tag = "Unop" -> freevars(e.operand)
      [] e.tag = "Binop" -> freevars(e.left) \cup freevars(e.right)
      [] e.tag = "AssocBinop" -> UnionAll({freevars(e.exprs[i]) : i \in DOMAIN e.exprs})
      [] e.tag = "Quantifier" -> freevars(e.body) \ {e.name}

(***************************************************************************)
(* gensym (lines 122-130): format!("{}{}", orig, i) for i = 0, 1, ...      *)
(***************************************************************************)
RECURSIVE Decimal(_)
Decimal(i) == IF i < 10 THEN <<48 + i>> ELSE Decimal(i \div 10) \o <<48 + (i % 10)>>

RECURSIVE gensym_from(_, _, _)
gensym_from(orig, avoid, i) ==
    LET ret == orig \o Decimal(i)
    IN IF ret \notin avoid THEN ret ELSE gensym_from(orig, avoid, i + 1)

gensym(orig, avoid) == gensym_from(orig, avoid, 0)

(***************************************************************************)
(* subst (lines 132-157)                                                   *)
(***************************************************************************)
\* a plausible slip: the binder is never renamed
QuantifierCase_norename(name, to_replace, fv_with) ==
    IF name = to_replace THEN "shadowed" ELSE "plain"

\* the match on (name == to_replace, fv_with.contains(name)) (lines 143-153)
QuantifierCase(name, to_replace, fv_with) ==
    IF name = to_replace THEN "shadowed"
    ELSE IF name \in fv_with THEN "rename"
    ELSE "plain"

RECURSIVE subst(_, _, _)
subst(e, to_replace, with) ==
    CASE e.tag = "Contradiction" -> Contradiction
      [] e.tag = "Tautology" -> Tautology
      [] e.tag = "Var" -> IF e.name = to_replace THEN with ELSE Var(e.name)
      [] e.tag = "Apply" ->
            Apply(subst(e.func, to_replace, with),
                  [i \in DOMAIN e.args |-> subst(e.args[i], to_replace, with)])
      [] e.tag = "Unop" -> Unop(e.symbol, subst(e.operand, to_replace, with))
      [] e.tag = "Binop" ->
            Binop(e.symbol, subst(e.left, to_replace, with), subst(e.right, to_replace, with))
      [] e.tag = "AssocBinop" ->
            AssocBinop(e.symbol, [i \in DOMAIN e.exprs |-> subst(e.exprs[i], to_replace, with)])
      [] e.tag = "Quantifier" ->
            LET fv_with == freevars(with)
                case == QuantifierCase(e.name, to_replace, fv_with)
            IN IF case = "shadowed" THEN Quantifier(e.symbol, e.name, e.body)
               ELSE IF case = "rename"
               THEN LET newname == gensym(e.name, fv_with)
                        body0 == subst(e.body, e.name, Var(newname))
                        body1 == subst(body0, to_replace, with)
                    IN Quantifier(e.symbol, newname, body1)
               ELSE Quantifier(e.symbol, e.name, subst(e.body, to_replace, with))

(***************************************************************************)
(* unify (lines 170-211).  Constraint::Equal(s, t) is the pair <<s, t>>,   *)
(* the HashSet of constraints a set.  Option<Substitution>: None, or       *)
(* Some(sub) with sub the Vec of (name, expr) pairs in push order.         *)
(* c_.drain().next() yields an arbitrary element of the HashSet, so unify  *)
(* is modelled by UnifyAll(c), the set of results over every picking order.*)
(***************************************************************************)
None == [some |-> FALSE]

Some(sub) == [some |-> TRUE, sub |-> sub]

\* A run of unify: the Option it returns, and (history, not program state) the
\* failure the run met: "" for none, "occurs" and "shape" for the two ways of
\* reaching the arm `_ => None` (line 209), "escape" for a returned substitution
\* that mentions the fresh name of a quantifier pair (line 207).
Run(ret, met) == [ret |-> ret, met |-> met]

\* the closure subst_set (line 181)
subst_set(v, e1, set) == {<<subst(c[1], v, e1), subst(c[2], v, e1)>> : c \in set}

\* "__unification_var" (line 203)
UnificationVar == <<95, 95, 117, 110, 105, 102, 105, 99, 97, 116, 105, 111, 110, 95, 118, 97, 114>>

\* a plausible slip: only the keys of the substitution are inspected
EscapeCheck_keysonly(r, uv) ==
    IF r.some /\ \E i \in DOMAIN r.sub : r.sub[i][1] = uv THEN None ELSE r

\* the closure of and_then (line 207)
EscapeCheck(r, uv) ==
    IF r.some /\ \E i \in DOMAIN r.sub : r.sub[i][1] = uv \/ uv \in freevars(r.sub[i][2])
    THEN None ELSE r

\* the closure of map (lines 185, 186)
PushBinding(r, n, e) == IF r.some THEN Some(Append(r.sub, <<n, e>>)) ELSE None

\* zip of two argument vectors (lines 195, 199)
ZipConstraints(se, te) == {<<se[i], te[i]>> : i \in DOMAIN se}

\* history only: the fresh name uv occurs in the substitution obtained
Mentions(r, uv) ==
    r.some /\ \E i \in DOMAIN r.sub : r.sub[i][1] = uv \/ uv \in freevars(r.sub[i][2])

\* history only: which failure the arm `_ => None` stands for
FailureKind(s, t) ==
    IF \/ s.tag = "Var" /\ s.name \in freevars(t)
       \/ t.tag = "Var" /\ t.name \in freevars(s)
    THEN "occurs" ELSE "shape"

RECURSIVE UnifyAll(_)
\* the match of lines 183-210 on the picked constraint s = t, c the remaining set
UnifyPicked(s, t, c) ==
    LET fvs == freevars(s)
        fvt == freevars(t)
    IN IF s = t THEN UnifyAll(c)
       ELSE IF s.tag = "Var" /\ s.name \notin fvt
       THEN {Run(PushBinding(r.ret, s.name, t), r.met) : r \in UnifyAll(subst_set(s.name, t, c))}
       ELSE IF t.tag = "Var" /\ t.name \notin fvs
       THEN {Run(PushBinding(r.ret, t.name, s), r.met) : r \in UnifyAll(subst_set(t.name, s, c))}
       ELSE IF s.tag = "Unop" /\ t.tag = "Unop" /\ s.symbol = t.symbol
       THEN UnifyAll(c \cup {<<s.operand, t.operand>>})
       ELSE IF s.tag = "Binop" /\ t.tag = "Binop" /\ s.symbol = t.symbol
       THEN UnifyAll(c \cup {<<s.left, t.left>>, <<s.right, t.right>>})
       ELSE IF s.tag = "Apply" /\ t.tag = "Apply" /\ Len(s.args) = Len(t.args)
       THEN UnifyAll(c \cup {<<s.func, t.func>>} \cup ZipConstraints(s.args, t.args))
       ELSE IF s.tag = "AssocBinop" /\ t.tag = "AssocBinop" /\ s.symbol = t.symbol
               /\ Len(s.exprs) = Len(t.exprs)
       THEN UnifyAll(c \cup ZipConstraints(s.exprs, t.exprs))
       ELSE IF s.tag = "Quantifier" /\ t.tag = "Quantifier" /\ s.symbol = t.symbol
       THEN LET uv == gensym(UnificationVar, fvs \cup fvt)
                q == <<subst(s.body, s.name, Var(uv)), subst(t.body, t.name, Var(uv))>>
            IN {Run(EscapeCheck(r.ret, uv), IF Mentions(r.ret, uv) THEN "escape" ELSE r.met) :
                    r \in UnifyAll(c \cup {q})}
       ELSE {Run(None, FailureKind(s, t))}

\* unify(c): every result the HashSet's iteration order can produce
UnifyAll(c) ==
    IF c = {} THEN {Run(Some(<<>>), "")}
    ELSE UNION {UnifyPicked(k[1], k[2], c \ {k}) : k \in c}

\* the folds of test_unify (lines 221-222): subst applied pair by pair, first to last
RECURSIVE FoldSubst(_, _)
FoldSubst(sub, z) ==
    IF sub = <<>> THEN z ELSE FoldSubst(Tail(sub), subst(z, Head(sub)[1], Head(sub)[2]))

(***************************************************************************)
(* The derived Ord of Expr (lines 5-29): the variant's position first,     *)
(* then the fields in declaration order; Vec and String lexicographically. *)
(* Cmp is -1, 0 or 1.                                                      *)
(***************************************************************************)
TagRank ==
    [Contradiction |-> 0, Tautology |-> 1, Var |-> 2, Apply |-> 3, Unop |-> 4,
     Binop |-> 5, AssocBinop |-> 6, Quantifier |-> 7]

SymbolRank ==
    [Not |-> 0, Implies |-> 0, Plus |-> 1, Mult |-> 2,
     And |-> 0, Or |-> 1, Bicon |-> 2, Equiv |-> 3, Forall |-> 0, Exists |-> 1]

CmpInt(a, b) == IF a < b THEN -1 ELSE IF a > b THEN 1 ELSE 0

\* Ord of String: byte-wise, a proper prefix is less
RECURSIVE CmpBytes(_, _)
CmpBytes(a, b) ==
    IF a = <<>> THEN (IF b = <<>> THEN 0 ELSE -1)
    ELSE IF b = <<>> THEN 1
    ELSE IF Head(a) # Head(b) THEN CmpInt(Head(a), Head(b))
    ELSE CmpBytes(Tail(a), Tail(b))

RECURSIVE Cmp(_, _)
RECURSIVE CmpSeq(_, _)
\* Ord of Vec<Expr>
CmpSeq(a, b) ==
    IF a = <<>> THEN (IF b = <<>> THEN 0 ELSE -1)
    ELSE IF b = <<>> THEN 1
    ELSE IF Cmp(Head(a), Head(b)) # 0 THEN Cmp(Head(a), Head(b))
    ELSE CmpSeq(Tail(a), Tail(b))

Cmp(a, b) ==
    IF a.tag # b.tag THEN CmpInt(TagRank[a.tag], TagRank[b.tag])
    ELSE CASE a.tag = "Var" -> CmpBytes(a.name, b.name)
           [] a.tag = "Apply" ->
                 IF Cmp(a.func, b.func) # 0 THEN Cmp(a.func, b.func) ELSE CmpSeq(a.args, b.args)
           [] a.tag = "Unop" ->
                 IF a.symbol # b.symbol THEN CmpInt(SymbolRank[a.symbol], SymbolRank[b.symbol])
                 ELSE Cmp(a.operand, b.operand)
           [] a.tag = "Binop" ->
                 IF a.symbol # b.symbol THEN CmpInt(SymbolRank[a.symbol], SymbolRank[b.symbol])
                 ELSE IF Cmp(a.left, b.left) # 0 THEN Cmp(a.left, b.left)
                 ELSE Cmp(a.right, b.right)
           [] a.tag = "AssocBinop" ->
                 IF a.symbol # b.symbol THEN CmpInt(SymbolRank[a.symbol], SymbolRank[b.symbol])
                 ELSE CmpSeq(a.exprs, b.exprs)
           [] a.tag = "Quantifier" ->
                 IF a.symbol # b.symbol THEN CmpInt(SymbolRank[a.symbol], SymbolRank[b.symbol])
                 ELSE IF CmpBytes(a.name, b.name) # 0 THEN CmpBytes(a.name, b.name)
                 ELSE Cmp(a.body, b.body)
           [] OTHER -> 0

\* a <= b
Le(a, b) == Cmp(a, b) <= 0

\* exprs.sort() (line 256)
RECURSIVE Insert(_, _)
Insert(e, q) ==
    IF q = <<>> THEN <<e>>
    ELSE IF Le(e, Head(q)) THEN <<e>> \o q
    ELSE <<Head(q)>> \o Insert(e, Tail(q))

RECURSIVE Sort(_)
Sort(q) == IF q = <<>> THEN <<>> ELSE Insert(Head(q), Sort(Tail(q)))

\* exprs.windows(2).all(|xy| xy[0] <= xy[1]) (line 254)
IsSorted(q) == \A i \in 1..(Len(q) - 1) : Le(q[i], q[i + 1])

(***************************************************************************)
(* The local rules of the passes.  A rule returns (expr, changed); here    *)
(* the set of its possible results, each a record with                     *)
(*   expr, changed : the pair the closure returns                          *)
(*   panic         : an assert! or unwrap() failed instead                 *)
(*   log           : history, the pattern rewrites made (for reduce_pattern)*)
(***************************************************************************)
Result(e, changed) == [expr |-> e, changed |-> changed, panic |-> FALSE, log |-> {}]

Panic(e) == [expr |-> e, changed |-> FALSE, panic |-> TRUE, log |-> {}]

\* the closure of sort_commutative_ops (lines 243-264)
SortRule(e) ==
    IF e.tag = "Binop"
    THEN IF BSymbolIsCommutative(e.symbol)
         THEN IF Le(e.left, e.right)
              THEN Result(Binop(e.symbol, e.left, e.right), TRUE)
              ELSE Result(Binop(e.symbol, e.right, e.left), TRUE)
         ELSE Result(e, FALSE)
    ELSE IF e.tag = "AssocBinop"
    THEN IF ASymbolIsCommutative(e.symbol) /\ ~IsSorted(e.exprs)
         THEN Result(AssocBinop(e.symbol, Sort(e.exprs)), TRUE)
         ELSE Result(e, FALSE)
    ELSE Result(e, FALSE)

\* a plausible slip: the operands of a spliced child are pushed in reverse
RECURSIVE Splice_reversed(_, _)
Splice_reversed(symbol1, exprs1) ==
    IF exprs1 = <<>> THEN <<>>
    ELSE LET expr == Head(exprs1)
         IN (IF expr.tag = "AssocBinop" /\ expr.symbol = symbol1
             THEN Reverse(expr.exprs) ELSE <<expr>>)
            \o Splice_reversed(symbol1, Tail(exprs1))

\* the loop of lines 275-286: result
RECURSIVE Splice(_, _)
Splice(symbol1, exprs1) ==
    IF exprs1 = <<>> THEN <<>>
    ELSE LET expr == Head(exprs1)
         IN (IF expr.tag = "AssocBinop" /\ expr.symbol = symbol1 THEN expr.exprs ELSE <<expr>>)
            \o Splice(symbol1, Tail(exprs1))

\* the loop of lines 275-286: combined
Combined(symbol1, exprs1) ==
    \E i \in DOMAIN exprs1 : exprs1[i].tag = "AssocBinop" /\ exprs1[i].symbol = symbol1

\* the closure of combine_associative_ops (lines 270-291)
CombineRule(e) ==
    IF e.tag = "AssocBinop"
    THEN Result(AssocBinop(e.symbol, Splice(e.symbol, e.exprs)), Combined(e.symbol, e.exprs))
    ELSE Result(e, FALSE)

\* a plausible slip: the operands are not negated
demorgans_unnegated(new_symbol, exprs) == AssocBinop(new_symbol, exprs)

\* the closure demorgans (lines 391-399)
demorgans(new_symbol, exprs) == AssocBinop(new_symbol, [i \in DOMAIN exprs |-> not(exprs[i])])

\* the closure of normalize_demorgans (lines 390-411)
DemorgansRule(e) ==
    IF e.tag = "Unop" /\ e.symbol = "Not"
    THEN IF e.operand.tag = "AssocBinop" /\ e.operand.symbol = "And"
         THEN Result(demorgans("Or", e.operand.exprs), TRUE)
         ELSE IF e.operand.tag = "AssocBinop" /\ e.operand.symbol = "Or"
         THEN Result(demorgans("And", e.operand.exprs), TRUE)
         ELSE Result(not(e.operand), FALSE)
    ELSE Result(e, FALSE)

\* a plausible slip: the first operand is kept inside a node of the same symbol
UseFirst_wrapped(symbol, exprs) == AssocBinop(symbol, <<exprs[1]>>)

\* "Just use the first one" (line 439), exprs not empty
UseFirst(symbol, exprs) == exprs[1]

\* the closure of normalize_idempotence (lines 421-446)
IdempotenceRule(e) ==
    IF e.tag = "AssocBinop" /\ e.symbol \in {"And", "Or"}
    THEN LET unifies == \A i \in 1..(Len(e.exprs) - 1) : e.exprs[i] = e.exprs[i + 1]
         IN IF unifies
            THEN (IF e.exprs = <<>> THEN Panic(e)
                  ELSE Result(UseFirst(e.symbol, e.exprs), TRUE))
            ELSE Result(e, FALSE)
    ELSE Result(e, FALSE)

(***************************************************************************)
(* reduce_pattern (lines 561-615) and the pattern lists of the passes      *)
(***************************************************************************)
phi == <<112, 104, 105>>

A == <<65>>

B == <<66>>

And2(l, r) == AssocBinop("And", <<l, r>>)

Or2(l, r) == AssocBinop("Or", <<l, r>>)

\* the (match, replace) pairs of each pass (lines 454, 464-470, 480-486, 496-502,
\* 512-514, 522-530)
PatternsOf(pass) ==
    CASE pass = "normalize_doublenegation" -> << <<not(not(Var(phi))), Var(phi)>> >>
      [] pass = "normalize_complement" ->
            << <<And2(Var(phi), not(Var(phi))), Contradiction>>,
               <<And2(not(Var(phi)), Var(phi)), Contradiction>>,
               <<Or2(Var(phi), not(Var(phi))), Tautology>>,
               <<Or2(not(Var(phi)), Var(phi)), Tautology>> >>
      [] pass = "normalize_identity" ->
            << <<And2(Var(phi), Tautology), Var(phi)>>,
               <<And2(Tautology, Var(phi)), Var(phi)>>,
               <<Or2(Var(phi), Contradiction), Var(phi)>>,
               <<Or2(Contradiction, Var(phi)), Var(phi)>> >>
      [] pass = "normalize_annihilation" ->
            << <<And2(Var(phi), Contradiction), Contradiction>>,
               <<And2(Contradiction, Var(phi)), Contradiction>>,
               <<Or2(Var(phi), Tautology), Tautology>>,
               <<Or2(Tautology, Var(phi)), Tautology>> >>
      [] pass = "normalize_inverse" ->
            << <<not(Tautology), Contradiction>>, <<not(Contradiction), Tautology>> >>
      [] pass = "normalize_absorption" ->
            << <<And2(Var(A), Or2(Var(A), Var(B))), Var(A)>>,
               <<And2(Var(A), Or2(Var(B), Var(A))), Var(A)>>,
               <<And2(Or2(Var(A), Var(B)), Var(A)), Var(A)>>,
               <<And2(Or2(Var(B), Var(A)), Var(A)), Var(A)>>,
               <<Or2(Var(A), And2(Var(A), Var(B))), Var(A)>>,
               <<Or2(Var(A), And2(Var(B), Var(A))), Var(A)>>,
               <<Or2(And2(Var(A), Var(B)), Var(A)), Var(A)>>,
               <<Or2(And2(Var(B), Var(A)), Var(A)), Var(A)>> >>
      [] OTHER -> <<>>

\* the loop of lines 576-581 over the HashSet free_pattern, in every iteration order
RECURSIVE PrepareFrom(_, _, _, _, _)
PrepareFrom(pattern, replace, pattern_vars, free_pattern, e_free) ==
    IF free_pattern = {} THEN {[pattern |-> pattern, replace |-> replace, vars |-> pattern_vars]}
    ELSE UNION {LET new_sym == gensym(free_var, e_free)
                IN PrepareFrom(subst(pattern, free_var, Var(new_sym)),
                               subst(replace, free_var, Var(new_sym)),
                               pattern_vars \cup {new_sym},
                               free_pattern \ {free_var}, e_free) :
                free_var \in free_pattern}

\* the closure of lines 567-584 mapped over the patterns: every list it can build
RECURSIVE PreparedLists(_, _)
PreparedLists(patterns, e_free) ==
    IF patterns = <<>> THEN {<<>>}
    ELSE {<<h>> \o t :
            h \in PrepareFrom(Head(patterns)[1], Head(patterns)[2], {},
                              freevars(Head(patterns)[1]), e_free),
            t \in PreparedLists(Tail(patterns), e_free)}

\* assert!(free_replace.is_subset(&free_pattern)) fails (line 572)
PrepareAsserts(patterns) ==
    \E i \in DOMAIN patterns : ~(freevars(patterns[i][2]) \subseteq freevars(patterns[i][1]))

\* the iteration orders of a HashMap's entries
RECURSIVE Orders(_)
Orders(S) == IF S = {} THEN {<<>>} ELSE UNION {{<<k>> \o o : o \in Orders(S \ {k})} : k \in S}

\* any_bad after the loop of lines 595-604
AnyBad(sub, pattern_vars) == \E j \in DOMAIN sub : sub[j][1] \notin pattern_vars

\* the closure of lines 586-614 from pattern i on: on a unification result ret of
\* pattern i (lines 591-611), or after the last pattern (line 613)
RECURSIVE TryPatterns(_, _, _)
AfterUnify(prep, i, expr, ret) ==
    IF ~ret.some THEN TryPatterns(prep, i + 1, expr)
    ELSE LET pattern_vars == prep[i].vars
             subs == {ret.sub[j] : j \in {k \in DOMAIN ret.sub : ret.sub[k][1] \in pattern_vars}}
             twice == \E j, k \in DOMAIN ret.sub :
                         j # k /\ ret.sub[j][1] = ret.sub[k][1] /\ ret.sub[j][1] \in pattern_vars
         IN IF twice THEN {Panic(expr)}
            ELSE IF ~AnyBad(ret.sub, pattern_vars) /\ Cardinality(subs) = Cardinality(pattern_vars)
            THEN {[expr |-> FoldSubst(o, prep[i].replace), changed |-> TRUE, panic |-> FALSE,
                   log |-> {[node |-> expr, pattern |-> prep[i], sub |-> ret.sub,
                             out |-> FoldSubst(o, prep[i].replace)]}] : o \in Orders(subs)}
            ELSE TryPatterns(prep, i + 1, expr)

TryPatterns(prep, i, expr) ==
    IF i > Len(prep) THEN {Result(expr, FALSE)}
    ELSE UNION {AfterUnify(prep, i, expr, r.ret) : r \in UnifyAll({<<prep[i].pattern, expr>>})}

(***************************************************************************)
(* transform_expr (lines 315-380)                                          *)
(***************************************************************************)
Passes ==
    {"sort_commutative_ops", "combine_associative_ops", "normalize_demorgans",
     "normalize_idempotence", "normalize_doublenegation", "normalize_complement",
     "normalize_identity", "normalize_annihilation", "normalize_inverse",
     "normalize_absorption"}

PatternPasses ==
    {"normalize_doublenegation", "normalize_complement", "normalize_identity",
     "normalize_annihilation", "normalize_inverse", "normalize_absorption"}

\* trans(expr) (line 328) for the closure of the given pass
RuleAll(pass, prep, e) ==
    CASE pass = "sort_commutative_ops" -> {SortRule(e)}
      [] pass = "combine_associative_ops" -> {CombineRule(e)}
      [] pass = "normalize_demorgans" -> {DemorgansRule(e)}
      [] pass = "normalize_idempotence" -> {IdempotenceRule(e)}
      [] OTHER -> TryPatterns(prep, 1, e)

\* the immediate sub-expressions in the order lines 338-363 transform them
SubExprs(e) ==
    CASE e.tag = "Apply" -> <<e.func>> \o e.args
      [] e.tag = "Unop" -> <<e.operand>>
      [] e.tag = "Binop" -> <<e.left, e.right>>
      [] e.tag = "AssocBinop" -> e.exprs
      [] e.tag = "Quantifier" -> <<e.body>>
      [] OTHER -> <<>>

\* the compound expression rebuilt from its transformed sub-expressions
Rebuild(e, kids) ==
    CASE e.tag = "Apply" -> Apply(kids[1], Tail(kids))
      [] e.tag = "Unop" -> Unop(e.symbol, kids[1])
      [] e.tag = "Binop" -> Binop(e.symbol, kids[1], kids[2])
      [] e.tag = "AssocBinop" -> AssocBinop(e.symbol, kids)
      [] e.tag = "Quantifier" -> Quantifier(e.symbol, e.name, kids[1])
      [] OTHER -> e

RECURSIVE InnerAll(_, _, _)
\* transform_expr_inner mapped over sub-expressions: (exprs, any status)
RECURSIVE InnerSeqAll(_, _, _)
InnerSeqAll(pass, prep, q) ==
    IF q = <<>> THEN {[exprs |-> <<>>, changed |-> FALSE, panic |-> FALSE, log |-> {}]}
    ELSE {[exprs |-> <<h.expr>> \o t.exprs, changed |-> h.changed \/ t.changed,
           panic |-> h.panic \/ t.panic, log |-> h.log \cup t.log] :
            h \in InnerAll(pass, prep, Head(q)), t \in InnerSeqAll(pass, prep, Tail(q))}

\* transform_expr_inner (lines 326-368): every (result, status || status2)
InnerAll(pass, prep, expr) ==
    UNION {IF r.panic THEN {r}
           ELSE {[expr |-> Rebuild(r.expr, k.exprs), changed |-> r.changed \/ k.changed,
                  panic |-> k.panic, log |-> r.log \cup k.log] :
                    k \in InnerSeqAll(pass, prep, SubExprs(r.expr))} :
           r \in RuleAll(pass, prep, expr)}

(***************************************************************************)
(* Input universes.  Names are byte strings; y0 is the name gensym makes   *)
(* from y, so that a generated name can meet a name of the input.          *)
(***************************************************************************)
x == <<120>>

y == <<121>>

y0 == <<121, 48>>

Names == {x, y, y0}

MaxNodes == 4

MaxWithNodes == 2

RECURSIVE ExprsOfSize(_)
RECURSIVE ExprSeqs(_, _)
\* sequences of len expressions with total node count
ExprSeqs(total, len) ==
    IF len = 0 THEN (IF total = 0 THEN {<<>>} ELSE {})
    ELSE UNION {{<<h>> \o r : h \in ExprsOfSize(i), r \in ExprSeqs(total - i, len - 1)} :
                i \in 1..(total - (len - 1))}

\* expressions with exactly n nodes: variables, forall, and flat conjunctions
ExprsOfSize(n) ==
    IF n = 1 THEN {Var(v) : v \in Names}
    ELSE {forall(b, body) : b \in Names, body \in ExprsOfSize(n - 1)}
         \cup UNION {{AssocBinop("And", es) : es \in ExprSeqs(n - 1, len)} : len \in 2..(n - 1)}

ExprsUpTo(n) == UNION {ExprsOfSize(k) : k \in 1..n}

Universe == ExprsUpTo(MaxNodes)

WithUniverse == ExprsUpTo(MaxWithNodes)

\* names of the inputs of test_unify (lines 228-237)
z == <<122>>

f == <<102>>

g == <<103>>

foo == <<102, 111, 111>>

bar == <<98, 97, 114>>

baz == <<98, 97, 122>>

\* the inputs of test_unify (lines 228-237), as the parser builds them
TestPairs ==
    LET fxyz == Apply(Var(f), <<Var(x), Var(y), Var(z)>>)
        gxyy == Apply(Var(g), <<Var(x), Var(y), Var(y)>>)
        pfoo == forall(foo, AssocBinop("And", <<Apply(Var(foo), <<Var(x), Var(y), Var(z)>>), Var(bar)>>))
        pbar == forall(bar, AssocBinop("And", <<Apply(Var(bar), <<Var(x), Var(y), Var(z)>>), Var(baz)>>))
    IN { <<Var(x), forall(y, Var(y))>>,
         <<forall(y, Var(y)), Var(y)>>,
         <<Var(x), Var(x)>>,
         <<forall(x, Var(x)), forall(y, Var(y))>>,
         <<fxyz, gxyy>>,
         <<gxyy, fxyz>>,
         <<pfoo, pbar>>,
         <<forall(x, Var(z)), forall(y, Var(y))>>,
         <<AssocBinop("And", <<Var(x), Var(y)>>), AssocBinop("Or", <<Var(x), Var(y)>>)>> }

UnifyInputs == (Universe \X Universe) \cup TestPairs

\* names of the inputs of the passes
name_a == <<97>>

name_b == <<98>>

name_c == <<99>>

name_q == <<113>>

name_r == <<114>>

phi0 == <<112, 104, 105, 48>>

phi1 == <<112, 104, 105, 49>>

MaxPassNodes == 5

RECURSIVE PassExprsOfSize(_)
RECURSIVE PassExprSeqs(_, _)
PassExprSeqs(total, len) ==
    IF len = 0 THEN (IF total = 0 THEN {<<>>} ELSE {})
    ELSE UNION {{<<h>> \o t : h \in PassExprsOfSize(i), t \in PassExprSeqs(total - i, len - 1)} :
                i \in 1..(total - (len - 1))}

\* propositional expressions with exactly n nodes: constants, two atoms, negation,
\* a commutative Binop, and flat conjunctions and disjunctions of two or more operands
PassExprsOfSize(n) ==
    IF n = 1 THEN {Contradiction, Tautology, Var(name_a), Var(name_b)}
    ELSE {not(e) : e \in PassExprsOfSize(n - 1)}
         \cup {Binop("Plus", es[1], es[2]) : es \in PassExprSeqs(n - 1, 2)}
         \cup UNION {{AssocBinop(sym, es) : sym \in {"And", "Or"}, es \in PassExprSeqs(n - 1, len)} :
                     len \in 2..(n - 1)}

\* further inputs: those of test_combine_associative_ops (lines 302-303), a deeper
\* nesting, the other Binop symbols, and expressions with quantifiers, among them
\* binders named like a renamed pattern variable
PassScenarios ==
    { And2(Var(name_a), Or2(And2(Var(name_b), Var(name_c)), Or2(Var(name_q), Var(name_r)))),
      Or2(And2(Var(name_a), And2(Var(name_b), Var(name_c))), Or2(Var(name_q), Var(name_r))),
      And2(Var(name_a), And2(Var(name_b), And2(Var(name_c), Or2(Var(name_a), Or2(Var(name_b), Var(name_c)))))),
      not(AssocBinop("Bicon", <<Var(name_a), Var(name_b)>>)),
      not(forall(x, not(And2(Var(x), Or2(Var(name_a), Var(name_b)))))),
      Binop("Implies", Var(name_b), Var(name_a)),
      Binop("Mult", Var(name_b), Var(name_a)),
      AssocBinop("Bicon", <<Var(name_b), Var(name_a)>>),
      forall(phi0, not(not(Var(phi0)))),
      forall(phi0, And2(Var(name_a), not(Var(phi0)))),
      forall(name_a, not(not(Var(name_a)))),
      Or2(And2(Var(phi0), Contradiction), forall(phi1, And2(Var(phi1), Contradiction))),
      Or2(And2(Var(phi0), Contradiction), forall(phi1, And2(not(Var(phi1)), Contradiction))),
      And2(forall(x, Var(x)), Or2(forall(y, Var(y)), Var(name_b))),
      And2(forall(x, Var(x)), not(forall(y, Var(y)))) }

PassUniverse == UNION {PassExprsOfSize(k) : k \in 1..MaxPassNodes} \cup PassScenarios

(***************************************************************************)
(* State.  One group of variables per exercised entry point; a group that  *)
(* a specification does not exercise stays "idle".                         *)
(***************************************************************************)
VARIABLES
    s_pc, s_e, s_name, s_with, s_ret,      \* a call of subst
    u_pc, u_s, u_t, u_ret, u_met, u_l, u_r, \* a call of unify({s = t}) as in test_unify
    p_pc, p_pass, p_e, p_prep,             \* a call of a normalization pass on e
    p_result, p_status, p_log,             \* result, status of transform_expr; rewrites made
    p_run, p_first                         \* the pass run again on its own output

s_vars == <<s_pc, s_e, s_name, s_with, s_ret>>

u_vars == <<u_pc, u_s, u_t, u_ret, u_met, u_l, u_r>>

p_vars == <<p_pc, p_pass, p_e, p_prep, p_result, p_status, p_log, p_run, p_first>>

vars == <<s_vars, u_vars, p_vars>>

s_Idle == s_pc = "idle" /\ s_e = "idle" /\ s_name = "idle" /\ s_with = "idle" /\ s_ret = "idle"

u_Idle == u_pc = "idle" /\ u_s = "idle" /\ u_t = "idle" /\ u_ret = "idle"
          /\ u_met = "idle" /\ u_l = "idle" /\ u_r = "idle"

p_Idle ==
    /\ p_pc = "idle" /\ p_pass = "idle" /\ p_e = "idle" /\ p_prep = "idle" /\ p_result = "idle"
    /\ p_status = "idle" /\ p_log = "idle" /\ p_run = "idle" /\ p_first = "idle"

(***************************************************************************)
(* SpecSubst: subst(e, name, with) is called and returns.                  *)
(***************************************************************************)
InitSubst ==
    /\ s_pc = "call"
    /\ s_e \in Universe
    /\ s_name \in Names
    /\ s_with \in WithUniverse
    /\ s_ret = "none"
    /\ u_Idle
    /\ p_Idle

Subst ==
    /\ s_pc = "call"
    /\ s_ret' = subst(s_e, s_name, s_with)
    /\ s_pc' = "ret"
    /\ UNCHANGED <<s_e, s_name, s_with, u_vars, p_vars>>

NextSubst == Subst

SpecSubst == InitSubst /\ [][NextSubst]_vars

(***************************************************************************)
(* SpecUnify: the closure u of test_unify (lines 216-227): unify is called *)
(* on the single constraint l = r; on Some(ret) the substitution is folded *)
(* over l and over r.                                                      *)
(***************************************************************************)
InitUnify ==
    /\ u_pc = "call"
    /\ \E pr \in UnifyInputs : u_s = pr[1] /\ u_t = pr[2]
    /\ u_ret = "none"
    /\ u_met = "none"
    /\ u_l = "none"
    /\ u_r = "none"
    /\ s_Idle
    /\ p_Idle

Unify ==
    /\ u_pc = "call"
    /\ \E r \in UnifyAll({<<u_s, u_t>>}) : u_ret' = r.ret /\ u_met' = r.met
    /\ u_pc' = "ret"
    /\ UNCHANGED <<u_s, u_t, u_l, u_r, s_vars, p_vars>>

TestFold ==
    /\ u_pc = "ret"
    /\ u_ret.some
    /\ u_l' = FoldSubst(u_ret.sub, u_s)
    /\ u_r' = FoldSubst(u_ret.sub, u_t)
    /\ u_pc' = "folded"
    /\ UNCHANGED <<u_s, u_t, u_ret, u_met, s_vars, p_vars>>

NextUnify == Unify \/ TestFold

SpecUnify == InitUnify /\ [][NextUnify]_vars

(***************************************************************************)
(* SpecPass: a normalization pass is called on e.  reduce_pattern prepares *)
(* its patterns; transform_expr makes a first traversal (line 372) and     *)
(* repeats it while the status is true (lines 373-378).  The pass is then  *)
(* called once more on the tree it returned.                               *)
(***************************************************************************)
\* the value of result before the first traversal has assigned it
NoExpr == [tag |-> "none"]

InitPass ==
    /\ p_pc = "call"
    /\ p_pass \in Passes
    /\ p_e \in PassUniverse
    /\ p_prep = <<>>
    /\ p_result = NoExpr
    /\ p_status = FALSE
    /\ p_log = {}
    /\ p_run = 1
    /\ p_first = NoExpr
    /\ s_Idle
    /\ u_Idle

\* one call of transform_expr_inner on the whole tree, with the given patterns
Traverse(prep, e) ==
    \E t \in InnerAll(p_pass, prep, e) :
        /\ p_result' = t.expr
        /\ p_status' = t.changed
        /\ p_log' = t.log
        /\ p_pc' = IF t.panic THEN "panic" ELSE "while"

\* entry of the pass up to the first traversal (lines 564-584, 372)
Call ==
    /\ p_pc = "call"
    /\ IF p_pass \in PatternPasses /\ PrepareAsserts(PatternsOf(p_pass))
       THEN p_pc' = "panic" /\ UNCHANGED <<p_prep, p_result, p_status, p_log>>
       ELSE \E prep \in PreparedLists(PatternsOf(p_pass), freevars(p_e)) :
                /\ p_prep' = prep
                /\ Traverse(prep, p_e)
    /\ UNCHANGED <<p_pass, p_e, p_run, p_first, s_vars, u_vars>>

\* while status (line 373), status true
LoopEnter ==
    /\ p_pc = "while"
    /\ p_status
    /\ p_pc' = "body"
    /\ UNCHANGED <<p_pass, p_e, p_prep, p_result, p_status, p_log, p_run, p_first, s_vars, u_vars>>

\* the loop body (lines 375-377)
LoopBody ==
    /\ p_pc = "body"
    /\ Traverse(p_prep, p_result)
    /\ UNCHANGED <<p_pass, p_e, p_prep, p_run, p_first, s_vars, u_vars>>

\* while status (line 373), status false: result is returned (line 379)
Return ==
    /\ p_pc = "while"
    /\ ~p_status
    /\ p_pc' = "done"
    /\ UNCHANGED <<p_pass, p_e, p_prep, p_result, p_status, p_log, p_run, p_first, s_vars, u_vars>>

\* the caller runs the same pass on the tree it got back
Rerun ==
    /\ p_pc = "done"
    /\ p_run = 1
    /\ p_run' = 2
    /\ p_first' = p_result
    /\ p_e' = p_result
    /\ p_pc' = "call"
    /\ p_prep' = <<>>
    /\ p_result' = NoExpr
    /\ p_status' = FALSE
    /\ p_log' = {}
    /\ UNCHANGED <<p_pass, s_vars, u_vars>>

NextPass == Call \/ LoopEnter \/ LoopBody \/ Return \/ Rerun

SpecPass == InitPass /\ [][NextPass]_vars

\* the positions at which the pass has a step to take
Running == p_pc \in {"call", "while", "body"} \/ (p_pc = "done" /\ p_run = 1)

\* a step of the running pass: NextPass has a step exactly at the positions of
\* Running, and every step of NextPass moves p_pc
Advance == Running /\ \E v \in {"call", "while", "body", "done", "panic"} : p_pc' = v

\* the pass runs on a single thread that is never suspended
FairSpecPass == SpecPass /\ WF_p_pc(Advance)

(***************************************************************************)
(* SpecTree: the callers that hand a well-formed tree to subst or to a     *)
(* normalization pass; either entry point is exercised.                    *)
(***************************************************************************)
InitTree == InitSubst \/ InitPass

NextTree == NextSubst \/ NextPass

SpecTree == InitTree /\ [][NextTree]_vars

(***************************************************************************)
(* Vocabulary of the properties                                            *)
(***************************************************************************)
\* the immediate sub-expressions, left to right
Children(e) ==
    CASE e.tag = "Apply" -> <<e.func>> \o e.args
      [] e.tag = "Unop" -> <<e.operand>>
      [] e.tag = "Binop" -> <<e.left, e.right>>
      [] e.tag = "AssocBinop" -> e.exprs
      [] e.tag = "Quantifier" -> <<e.body>>
      [] OTHER -> <<>>

\* the sub-expression at a path of child indices
RECURSIVE AtPath(_, _)
AtPath(e, p) == IF p = <<>> THEN e ELSE AtPath(Children(e)[Head(p)], Tail(p))

\* the names bound by the quantifiers strictly above the node at path p
RECURSIVE BoundAlong(_, _)
BoundAlong(e, p) ==
    IF p = <<>> THEN {}
    ELSE (IF e.tag = "Quantifier" THEN {e.name} ELSE {})
         \cup BoundAlong(Children(e)[Head(p)], Tail(p))

\* the paths of all nodes of e
RECURSIVE Paths(_)
Paths(e) ==
    {<<>>} \cup UNION {{<<i>> \o p : p \in Paths(Children(e)[i])} : i \in DOMAIN Children(e)}

\* the paths of the free occurrences of name n in e
FreeOccurrences(e, n) ==
    {p \in Paths(e) : AtPath(e, p) = Var(n) /\ n \notin BoundAlong(e, p)}

\* alpha-equivalence: env pairs the binders crossed so far, innermost last
RECURSIVE LastIndex(_, _, _)
LastIndex(env, k, n) ==
    IF env = <<>> THEN 0
    ELSE IF env[Len(env)][k] = n THEN Len(env)
    ELSE LastIndex(SubSeq(env, 1, Len(env) - 1), k, n)

RECURSIVE AlphaEqIn(_, _, _)
AlphaEqIn(a, b, env) ==
    /\ a.tag = b.tag
    /\ CASE a.tag = "Var" ->
                /\ LastIndex(env, 1, a.name) = LastIndex(env, 2, b.name)
                /\ LastIndex(env, 1, a.name) = 0 => a.name = b.name
         [] a.tag = "Quantifier" ->
                /\ a.symbol = b.symbol
                /\ AlphaEqIn(a.body, b.body, Append(env, <<a.name, b.name>>))
         [] a.tag \in {"Unop", "Binop", "AssocBinop"} ->
                /\ a.symbol = b.symbol
                /\ Len(Children(a)) = Len(Children(b))
                /\ \A i \in DOMAIN Children(a) : AlphaEqIn(Children(a)[i], Children(b)[i], env)
         [] a.tag = "Apply" ->
                /\ Len(Children(a)) = Len(Children(b))
                /\ \A i \in DOMAIN Children(a) : AlphaEqIn(Children(a)[i], Children(b)[i], env)
         [] OTHER -> TRUE

AlphaEq(a, b) == AlphaEqIn(a, b, <<>>)

\* every AssocBinop node has at least two operands
RECURSIVE WellFormed(_)
WellFormed(e) ==
    /\ e.tag = "AssocBinop" => Len(e.exprs) >= 2
    /\ \A i \in DOMAIN Children(e) : WellFormed(Children(e)[i])

\* r has the variants, symbols and operand counts of e, except below variables of e
RECURSIVE SameShape(_, _)
SameShape(e, r) ==
    \/ e.tag = "Var"
    \/ /\ e.tag = r.tag
       /\ e.tag \in {"Unop", "Binop", "AssocBinop", "Quantifier"} => e.symbol = r.symbol
       /\ Len(Children(e)) = Len(Children(r))
       /\ \A i \in DOMAIN Children(e) : SameShape(Children(e)[i], Children(r)[i])

u_Returned == u_pc \in {"ret", "folded"}

(***************************************************************************)
(* C1.  Unifier soundness: when unify({s = t}) returns a substitution,     *)
(* applying its bindings to s and to t in the order the unifier found them *)
(* (last pair of the list first) gives alpha-equal trees, whatever order   *)
(* the constraints were picked in.                                         *)
(***************************************************************************)
C1_UnifierSoundness ==
    (u_Returned /\ u_ret.some) =>
        AlphaEq(FoldSubst(Reverse(u_ret.sub), u_s), FoldSubst(Reverse(u_ret.sub), u_t))

C3_FreeVarBound ==
    s_pc = "ret" =>
        /\ freevars(s_ret) \subseteq ((freevars(s_e) \ {s_name}) \cup freevars(s_with))
        /\ WellFormed(s_ret)
        /\ SameShape(s_e, s_ret)

\* a value with a free variable was substituted under a binder and in a conjunction
C3_Witness ==
    /\ s_pc = "ret"
    /\ s_e.tag = "AssocBinop"
    /\ s_name \in freevars(s_e)
    /\ s_with.tag = "Var"
    /\ s_with.name # s_name
    /\ \E i \in DOMAIN s_e.exprs : s_e.exprs[i].tag = "Quantifier" /\ s_name \in freevars(s_e.exprs[i])
    /\ s_ret # s_e

(***************************************************************************)
(* C4.  Unifier completeness under alpha: for a quantifier Q x. B and a    *)
(* name y not free in B, unify({Q x. B = Q y. subst(B, x, Var y)}) returns *)
(* the empty substitution.                                                 *)
(***************************************************************************)
AlphaInstance(s, t) ==
    /\ s.tag = "Quantifier"
    /\ t.tag = "Quantifier"
    /\ s.symbol = t.symbol
    /\ t.name \notin freevars(s.body)
    /\ t.body = subst(s.body, s.name, Var(t.name))

C4_AlphaCompleteness ==
    (u_Returned /\ AlphaInstance(u_s, u_t)) => u_ret = Some(<<>>)

(***************************************************************************)
(* C5.  Choice independence of unify: whether unify succeeds does not      *)
(* depend on the order in which constraints are picked: the result of the  *)
(* run agrees on success with every other picking order.                   *)
(***************************************************************************)
C5_ChoiceIndependence ==
    u_Returned => \A r \in UnifyAll({<<u_s, u_t>>}) : r.ret.some = u_ret.some

(***************************************************************************)
(* C6.  Failure outcomes of unify: a run that meets an occurs-check        *)
(* violation, a shape mismatch or an escape of a quantifier pair's fresh   *)
(* name returns None, never a substitution; in particular so do a variable *)
(* against an expression it is free in, two non-variable expressions of    *)
(* different shape, and a quantifier pair whose fresh name would appear in *)
(* the substitution.                                                       *)
(***************************************************************************)
TopOccurs(s, t) ==
    /\ s # t
    /\ \/ s.tag = "Var" /\ s.name \in freevars(t)
       \/ t.tag = "Var" /\ t.name \in freevars(s)

TopShapeMismatch(s, t) ==
    /\ s.tag # "Var"
    /\ t.tag # "Var"
    /\ \/ s.tag # t.tag
       \/ s.tag \in {"Unop", "Binop", "AssocBinop", "Quantifier"} /\ s.symbol # t.symbol
       \/ s.tag \in {"Apply", "AssocBinop"} /\ Len(Children(s)) # Len(Children(t))

TopFreshName(s, t) == gensym(UnificationVar, freevars(s) \cup freevars(t))

C6_FailureOutcomes ==
    u_Returned =>
        /\ u_met # "" => u_ret = None
        /\ TopOccurs(u_s, u_t) => u_ret = None /\ u_met = "occurs"
        /\ TopShapeMismatch(u_s, u_t) => u_ret = None /\ u_met = "shape"
        /\ (u_s.tag = "Quantifier" /\ u_t.tag = "Quantifier" /\ u_ret.some)
              => ~Mentions(u_ret, TopFreshName(u_s, u_t))

\* forall x, y = forall y, y: the fresh name escapes and the run returns None
C6_Witness ==
    /\ u_pc = "ret"
    /\ u_s = forall(x, Var(y))
    /\ u_t = forall(y, Var(y))
    /\ u_met = "escape"
    /\ u_ret = None

(***************************************************************************)
(* Vocabulary of the properties of the passes.                             *)
(***************************************************************************)
\* the sub-expressions of e, e included
Subterms(e) == {AtPath(e, p) : p \in Paths(e)}

\* theta(e) for the map theta given by a list of bindings with distinct keys:
\* every free variable that is a key is replaced by its value, all at once
RECURSIVE Instantiate(_, _)
Instantiate(sub, e) ==
    IF e.tag = "Var"
    THEN IF \E j \in DOMAIN sub : sub[j][1] = e.name
         THEN sub[CHOOSE j \in DOMAIN sub : sub[j][1] = e.name][2]
         ELSE e
    ELSE IF e.tag = "Quantifier"
    THEN Quantifier(e.symbol, e.name,
                    Instantiate(SelectSeq(sub, LAMBDA pr : pr[1] # e.name), e.body))
    ELSE Rebuild(e, [i \in DOMAIN Children(e) |-> Instantiate(sub, Children(e)[i])])

\* no AssocBinop node of e has an immediate child that is an AssocBinop with its symbol
NoSameSymbolChild(e) ==
    \A n \in Subterms(e) :
        n.tag = "AssocBinop" =>
            \A i \in DOMAIN n.exprs :
                ~(n.exprs[i].tag = "AssocBinop" /\ n.exprs[i].symbol = n.symbol)

RECURSIVE Concat(_)
Concat(qs) == IF qs = <<>> THEN <<>> ELSE Head(qs) \o Concat(Tail(qs))

\* e with every same-symbol AssocBinop child replaced, in place, by its operands
RECURSIVE Flattened(_)
Flattened(e) ==
    LET kids == [i \in DOMAIN Children(e) |-> Flattened(Children(e)[i])]
    IN IF e.tag = "AssocBinop"
       THEN AssocBinop(e.symbol,
                Concat([i \in DOMAIN kids |->
                    IF kids[i].tag = "AssocBinop" /\ kids[i].symbol = e.symbol
                    THEN kids[i].exprs ELSE <<kids[i]>>]))
       ELSE Rebuild(e, kids)

p_Done == p_pc = "done"

(***************************************************************************)
(* C7.  One-way matching in reduce_pattern: whenever a node n is rewritten *)
(* by a prepared pattern (lhs, rhs), the unification result binds only the *)
(* pattern's renamed variables, each exactly once and all of them, to      *)
(* sub-expressions of n; for the map theta of these bindings theta(lhs) is *)
(* n structurally, and n is replaced by exactly theta(rhs).                *)
(***************************************************************************)
C7_OneWayMatching ==
    (p_pc \in {"while", "body", "done"} /\ p_pass \in PatternPasses) =>
        \A w \in p_log :
            /\ \A j \in DOMAIN w.sub : w.sub[j][1] \in w.pattern.vars
            /\ \A j, k \in DOMAIN w.sub : w.sub[j][1] = w.sub[k][1] => j = k
            /\ \A v \in w.pattern.vars : \E j \in DOMAIN w.sub : w.sub[j][1] = v
            /\ \A j \in DOMAIN w.sub : w.sub[j][2] \in Subterms(w.node)
            /\ Instantiate(w.sub, w.pattern.pattern) = w.node
            /\ Instantiate(w.sub, w.pattern.replace) = w.out

(***************************************************************************)
(* C8.  Totality of the passes: on every well-formed input each of the ten *)
(* passes reaches a traversal that reports no change and returns, and it   *)
(* never panics.                                                           *)
(***************************************************************************)
C8_Totality == <>p_Done /\ [](p_pc # "panic")

(***************************************************************************)
(* C9.  Idempotence of every pass: the pass run on the tree it returned    *)
(* returns that same tree, P(P(e)) = P(e).                                 *)
(***************************************************************************)
C9_Idempotence == (p_Done /\ p_run = 2) => p_result = p_first

(***************************************************************************)
(* C10.  Flattening by combine_associative_ops: in the tree it returns no  *)
(* AssocBinop node at any depth has an AssocBinop child with its own       *)
(* symbol, and that tree is the input with every such child replaced in    *)
(* place by its operands: the operands keep their left-to-right order and  *)
(* children with another symbol stay nested.                               *)
(***************************************************************************)
C10_Flattening ==
    (p_Done /\ p_pass = "combine_associative_ops") =>
        /\ NoSameSymbolChild(p_result)
        /\ p_result = Flattened(p_e)

\* a & (b & c) has become the flat node a & b & c
C10_Witness ==
    /\ p_Done
    /\ p_pass = "combine_associative_ops"
    /\ p_run = 1
    /\ p_e = And2(Var(name_a), And2(Var(name_b), Var(name_a)))
    /\ p_result = AssocBinop("And", <<Var(name_a), Var(name_b), Var(name_a)>>)

\* no sub-expression of e is Not applied directly to an AssocBinop with And or Or
NoNegatedJunction(e) ==
    \A n \in Subterms(e) :
        ~(n.tag = "Unop" /\ n.symbol = "Not" /\ n.operand.tag = "AssocBinop"
          /\ n.operand.symbol \in {"And", "Or"})

\* e with every negated conjunction or disjunction pushed inwards, operand by operand
RECURSIVE DeMorganForm(_)
DeMorganForm(e) ==
    IF e.tag = "Unop" /\ e.symbol = "Not"
    THEN LET o == DeMorganForm(e.operand)
         IN IF o.tag = "AssocBinop" /\ o.symbol \in {"And", "Or"}
            THEN AssocBinop(IF o.symbol = "And" THEN "Or" ELSE "And",
                            [i \in DOMAIN o.exprs |-> DeMorganForm(not(o.exprs[i]))])
            ELSE not(o)
    ELSE Rebuild(e, [i \in DOMAIN Children(e) |-> DeMorganForm(Children(e)[i])])

(***************************************************************************)
(* C11.  DeMorgan normal form: the tree normalize_demorgans returns has no *)
(* Not applied directly to an AssocBinop with And or Or; it is the input   *)
(* with every negated conjunction replaced by the disjunction of the       *)
(* negated operands and every negated disjunction by the conjunction of    *)
(* the negated operands, same number and order of operands, and with the   *)
(* negations of anything else left as they are.                            *)
(***************************************************************************)
C11_DeMorganForm ==
    (p_Done /\ p_pass = "normalize_demorgans") =>
        /\ NoNegatedJunction(p_result)
        /\ p_result = DeMorganForm(p_e)

\* ~(a & b & a) has become ~a | ~b | ~a
C11_Witness ==
    /\ p_Done
    /\ p_pass = "normalize_demorgans"
    /\ p_run = 1
    /\ p_e = not(AssocBinop("And", <<Var(name_a), Var(name_b), Var(name_a)>>))
    /\ p_result = AssocBinop("Or", <<not(Var(name_a)), not(Var(name_b)), not(Var(name_a))>>)

(***************************************************************************)
(* C12.  AssocBinop arity: when every AssocBinop node of the input has at  *)
(* least 2 operands, so has every AssocBinop node of the tree subst        *)
(* returns and of the tree every traversal of every pass produces, the     *)
(* returned tree included; a node is kept with 2 or more operands or       *)
(* replaced as a whole, never left with 0 or 1 operand.                    *)
(***************************************************************************)
C12_ArityInvariant ==
    /\ (s_pc = "ret" /\ WellFormed(s_e) /\ WellFormed(s_with)) => WellFormed(s_ret)
    /\ (p_pc \in {"while", "body", "done"} /\ WellFormed(p_e)) => WellFormed(p_result)

\* normalize_idempotence has replaced the node a & a by a inside a disjunction
C12_Witness ==
    /\ p_Done
    /\ p_pass = "normalize_idempotence"
    /\ p_run = 1
    /\ p_e = Or2(And2(Var(name_a), Var(name_a)), Var(name_b))
    /\ p_result = Or2(Var(name_a), Var(name_b))

\* every tree the loop of transform_expr can return from a traversal result (cur, status),
\* whatever unify picks and in whatever order the bindings are applied
RECURSIVE Outcomes(_, _, _, _)
Outcomes(pass, prep, cur, status) ==
    IF ~status THEN {cur}
    ELSE UNION {Outcomes(pass, prep, t.expr, t.changed) : t \in InnerAll(pass, prep, cur)}

\* every tree a run of a pattern pass on e can return
AllOutcomes(pass, e) ==
    UNION {UNION {Outcomes(pass, prep, t.expr, t.changed) : t \in InnerAll(pass, prep, e)} :
           prep \in PreparedLists(PatternsOf(pass), freevars(e))}

(***************************************************************************)
(* C13.  Referential transparency of pattern rewriting: for a fixed e each *)
(* pattern pass returns the same tree on every run: the tree this run      *)
(* returned is the only one any order of picking constraints in unify and  *)
(* any order of applying the accepted bindings can return.                 *)
(***************************************************************************)
C13_ReferentialTransparency ==
    (p_Done /\ p_pass \in PatternPasses) => AllOutcomes(p_pass, p_e) = {p_result}

(***************************************************************************)
(* C14.  Application of a unifier as test_unify does it: when unify({s =   *)
(* t}) returns a substitution, folding subst over the returned list from   *)
(* its first pair to its last, from s and from t (subst_l and subst_r),    *)
(* gives alpha-equal trees, whatever order the constraints were picked in. *)
(***************************************************************************)
C14_TestFold == u_pc = "folded" => AlphaEq(u_l, u_r)

(***************************************************************************)
(* C15.  subst does not capture free variables of e: every free variable   *)
(* of e other than the replaced name is free in the result, and when the   *)
(* quantifier at the root of e is renamed, the fresh name gensym(bound,     *)
(* freevars(value)) is not a name that occurs free in its body.            *)
(***************************************************************************)
C15_NoCaptureOfBody ==
    s_pc = "ret" =>
        /\ (freevars(s_e) \ {s_name}) \subseteq freevars(s_ret)
        /\ (/\ s_e.tag = "Quantifier"
            /\ QuantifierCase(s_e.name, s_name, freevars(s_with)) = "rename")
           => gensym(s_e.name, freevars(s_with)) \notin freevars(s_e.body)

\* no sub-expression of e is a negation of a negation
NoDoubleNegation(e) ==
    \A n \in Subterms(e) :
        ~(n.tag = "Unop" /\ n.symbol = "Not"
          /\ n.operand.tag = "Unop" /\ n.operand.symbol = "Not")

(***************************************************************************)
(* C16.  Double-negation normal form: the tree normalize_doublenegation    *)
(* returns has no sub-expression that is a negation of a negation, also    *)
(* when a quantifier of the input binds a name equal to the renamed        *)
(* pattern variable.                                                       *)
(***************************************************************************)
C16_DoubleNegationForm ==
    (p_Done /\ p_pass = "normalize_doublenegation") => NoDoubleNegation(p_result)

====
